---- MODULE Spec2Model ----
(***************************************************************************)
(* A model of the pdf-chatbot RAG pipeline (app/services):                 *)
(*   - PDFService._normalize_whitespace and PDFService.chunk_text,         *)
(*   - EmbeddingsService over a ChromaDB persistent store,                 *)
(*   - ChatService._get_context / answer.                                  *)
(* Python strings are modelled as sequences of one-character strings, so   *)
(* that slicing, joining, stripping and the regular expressions of the     *)
(* source are computed character by character.                             *)
(***************************************************************************)
EXTENDS Integers, Sequences, FiniteSets, TLC

VARIABLES
    norig,      \* SpecNorm: the text first handed to _normalize_whitespace
    nprev,      \* SpecNorm: the argument of the latest application
    ntext,      \* SpecNorm: the result of the latest application
    napplied,   \* SpecNorm: how many times it has been applied
    ctext,      \* SpecChunk: the text handed to chunk_text
    csize,      \* SpecChunk: PDFService.chunk_size
    coverlap,   \* SpecChunk: PDFService.chunk_overlap
    cparas,     \* SpecChunk: raw_paras, the pieces the text was split into
    cgroups,    \* SpecChunk: the pieces joined into each returned chunk
    cchunks,    \* SpecChunk: the chunks returned
    cdone,      \* SpecChunk: chunk_text has returned
    store,      \* the ChromaDB persistent store: collection name -> collection
    svc,        \* the EmbeddingsService instances: id -> fields
    ranking,    \* the embedding provider's similarity: query -> texts, nearest first
    addrs,      \* the values id(hash(c)) % 10**8 can take in this run
    texts,      \* the chunk texts uploads carry in this run
    ev,         \* the latest EmbeddingsService call: arguments, result, provider calls
    chat,       \* the ChatService instance: its fields
    call,       \* the answer() calls: call id -> position and local variables
    hist,       \* SpecRetrieve: call id -> the searches _get_context has made
    hf_loads    \* SpecLocal, SpecAsk: how many times pipeline(...) has been built

normVars == <<norig, nprev, ntext, napplied>>
chunkVars == <<ctext, csize, coverlap, cparas, cgroups, cchunks, cdone>>
indexVars == <<store, svc, ranking, addrs, texts, ev>>
chatVars == <<chat, call, hist, hf_loads>>
vars == <<normVars, chunkVars, indexVars, chatVars>>

(***************************************************************************)
(* Bounds of the model                                                     *)
(***************************************************************************)
MaxTextLen == 6
MaxPieces == 4
MaxChunkSize == 6
MaxOverlap == 7
MaxEntries == 2
MaxChunks == 2
MaxAddr == 1
MaxTopK == 2
MaxLoads == 2

(***************************************************************************)
(* Strings                                                                 *)
(***************************************************************************)
\* All sequences over S of length 0..n
SeqsUpTo(S, n) == UNION { [1..k -> S] : k \in 0..n }

\* s[i:] of Python, 0-based i as a count of dropped characters
Drop(s, k) == IF k >= Len(s) THEN <<>> ELSE SubSeq(s, k + 1, Len(s))

\* s[:k] of Python
Take(s, k) == IF k >= Len(s) THEN s ELSE SubSeq(s, 1, k)

\* Characters str.strip() removes and the regular expression class \s matches
Whitespace == {" ", "\t", "\n", "\r"}

\* The class [ \t] of the first substitution
HSpace == {" ", "\t"}

\* Length of the longest prefix of s made of characters of the set cs
RECURSIVE RunLen(_, _)
RunLen(s, cs) ==
    IF s = <<>> THEN 0
    ELSE IF Head(s) \in cs THEN 1 + RunLen(Tail(s), cs)
    ELSE 0

\* str.strip()
Reverse(s) == [i \in 1..Len(s) |-> s[Len(s) + 1 - i]]
LStrip(s) == Drop(s, RunLen(s, Whitespace))
RStrip(s) == Reverse(LStrip(Reverse(s)))
Strip(s) == RStrip(LStrip(s))

(***************************************************************************)
(* PDFService._normalize_whitespace                                        *)
(***************************************************************************)
\* re.sub(r"[ \t]+", " ", text): every maximal run of spaces and tabs
\* becomes one space
RECURSIVE SubHSpace(_)
SubHSpace(s) ==
    IF s = <<>> THEN <<>>
    ELSE IF Head(s) \in HSpace
         THEN <<" ">> \o SubHSpace(Drop(s, RunLen(s, HSpace)))
         ELSE <<Head(s)>> \o SubHSpace(Tail(s))

\* A plausible slip: r"\n{3}" for r"\n{3,}" (exactly three newlines per match)
RECURSIVE SubNewlinesExactly3(_)
SubNewlinesExactly3(s) ==
    IF s = <<>> THEN <<>>
    ELSE IF RunLen(s, {"\n"}) >= 3
         THEN <<"\n", "\n">> \o SubNewlinesExactly3(Drop(s, 3))
         ELSE <<Head(s)>> \o SubNewlinesExactly3(Tail(s))

\* re.sub(r"\n{3,}", "\n\n", text): every maximal run of three or more
\* newlines becomes two newlines (the quantifier is greedy)
RECURSIVE SubNewlines(_)
SubNewlines(s) ==
    IF s = <<>> THEN <<>>
    ELSE IF RunLen(s, {"\n"}) >= 3
         THEN <<"\n", "\n">> \o SubNewlines(Drop(s, RunLen(s, {"\n"})))
         ELSE <<Head(s)>> \o SubNewlines(Tail(s))

_normalize_whitespace(text) ==
    IF text = <<>> THEN <<>>
    ELSE Strip(SubNewlines(SubHSpace(text)))

(***************************************************************************)
(* PDFService.chunk_text                                                   *)
(***************************************************************************)
\* sep.join(parts)
RECURSIVE Join(_, _)
Join(parts, sep) ==
    IF parts = <<>> THEN <<>>
    ELSE IF Len(parts) = 1 THEN parts[1]
    ELSE parts[1] \o sep \o Join(Tail(parts), sep)

\* The paragraph separator "\n\n"
BlankLine == <<"\n", "\n">>

\* Position (1-based) of the last newline among the first n characters of s,
\* 0 when there is none
RECURSIVE LastNewline(_, _)
LastNewline(s, n) ==
    IF n = 0 THEN 0
    ELSE IF s[n] = "\n" THEN n
    ELSE LastNewline(s, n - 1)

\* Length of the match of r"\n\s*\n" at the head of s, 0 when it does not
\* match there: a newline, then the greedy \s* backtracks to the last newline
\* of the whitespace run that follows
MatchParaBreak(s) ==
    IF s = <<>> \/ Head(s) # "\n" THEN 0
    ELSE LET rest == Tail(s)
             last == LastNewline(rest, RunLen(rest, Whitespace))
         IN  IF last = 0 THEN 0 ELSE 1 + last

\* re.split(r"\n\s*\n", text): cur is the piece being read
RECURSIVE SplitParas(_, _)
SplitParas(s, cur) ==
    IF s = <<>> THEN <<cur>>
    ELSE IF MatchParaBreak(s) > 0
         THEN <<cur>> \o SplitParas(Drop(s, MatchParaBreak(s)), <<>>)
         ELSE SplitParas(Tail(s), Append(cur, Head(s)))

\* The class [.!?] of the sentence split's lookbehind
SentenceEnd == {".", "!", "?"}

\* re.split(r"(?<=[.!?])\s+", para): prev is the character before s
RECURSIVE SplitSentences(_, _, _)
SplitSentences(s, cur, prev) ==
    IF s = <<>> THEN <<cur>>
    ELSE IF prev \in SentenceEnd /\ Head(s) \in Whitespace
         THEN <<cur>> \o SplitSentences(Drop(s, RunLen(s, Whitespace)), <<>>, " ")
         ELSE SplitSentences(Tail(s), Append(cur, Head(s)), Head(s))

\* [f(p) for p in parts if p.strip()], f being strip (paragraphs) or the
\* identity (sentences)
RECURSIVE KeepNonBlank(_, _)
KeepNonBlank(parts, strip) ==
    IF parts = <<>> THEN <<>>
    ELSE IF Strip(Head(parts)) = <<>> THEN KeepNonBlank(Tail(parts), strip)
    ELSE <<IF strip THEN Strip(Head(parts)) ELSE Head(parts)>>
         \o KeepNonBlank(Tail(parts), strip)

\* raw_paras of chunk_text for an already normalized, non-empty text
RawParas(text) ==
    LET paras == KeepNonBlank(SplitParas(text, <<>>), TRUE)
    IN  IF Len(paras) = 1
        THEN KeepNonBlank(SplitSentences(paras[1], <<>>, " "), FALSE)
        ELSE paras

\* sum(len(p) + 2 for p in current)
RECURSIVE SumLen(_)
SumLen(current) ==
    IF current = <<>> THEN 0
    ELSE Len(Head(current)) + 2 + SumLen(Tail(current))

\* The overlap loop: the last pieces of current, taken from the end backward
\* while their lengths (+2 each) add up to at most chunk_overlap
RECURSIVE OverlapParas(_, _, _, _)
OverlapParas(current, chunk_overlap, overlap_len, overlap_paras) ==
    IF current = <<>> THEN overlap_paras
    ELSE LET p == current[Len(current)]
         IN  IF overlap_len + Len(p) + 2 <= chunk_overlap
             THEN OverlapParas(SubSeq(current, 1, Len(current) - 1), chunk_overlap,
                               overlap_len + Len(p) + 2, <<p>> \o overlap_paras)
             ELSE overlap_paras

\* One iteration of the packing loop over raw_paras; st holds the loop's
\* variables (groups: the piece list of every chunk appended so far)
PackPara(st, para, chunk_size, chunk_overlap) ==
    LET para_len == Len(para) + 2
    IN  IF st.current_len + para_len > chunk_size /\ st.current # <<>>
        THEN LET seed == OverlapParas(st.current, chunk_overlap, 0, <<>>)
             IN  [groups |-> Append(st.groups, st.current),
                  current |-> Append(seed, para),
                  current_len |-> SumLen(seed) + para_len]
        ELSE [groups |-> st.groups,
              current |-> Append(st.current, para),
              current_len |-> st.current_len + para_len]

RECURSIVE PackLoop(_, _, _, _)
PackLoop(st, paras, chunk_size, chunk_overlap) ==
    IF paras = <<>> THEN st
    ELSE PackLoop(PackPara(st, Head(paras), chunk_size, chunk_overlap),
                  Tail(paras), chunk_size, chunk_overlap)

\* A plausible slip: the remaining accumulator is not flushed at the end
PackGroupsNoFlush(raw_paras, chunk_size, chunk_overlap) ==
    PackLoop([groups |-> <<>>, current |-> <<>>, current_len |-> 0],
             raw_paras, chunk_size, chunk_overlap).groups

\* The piece lists of the chunks chunk_text returns for raw_paras
PackGroups(raw_paras, chunk_size, chunk_overlap) ==
    LET st == PackLoop([groups |-> <<>>, current |-> <<>>, current_len |-> 0],
                       raw_paras, chunk_size, chunk_overlap)
    IN  IF st.current # <<>> THEN Append(st.groups, st.current) ELSE st.groups

\* The pieces and the piece lists of chunk_text(text)
ChunkGroups(text, chunk_size, chunk_overlap) ==
    LET norm == _normalize_whitespace(text)
    IN  IF norm = <<>> THEN [paras |-> <<>>, groups |-> <<>>]
        ELSE [paras |-> RawParas(norm),
              groups |-> PackGroups(RawParas(norm), chunk_size, chunk_overlap)]

chunk_text(text, chunk_size, chunk_overlap) ==
    LET groups == ChunkGroups(text, chunk_size, chunk_overlap).groups
    IN  [i \in 1..Len(groups) |-> Join(groups[i], BlankLine)]

(***************************************************************************)
(* EmbeddingsService over the ChromaDB persistent store                    *)
(***************************************************************************)
\* Optional[str]: None is <<>>, a string s is <<s>>
None == <<>>
Some(x) == <<x>>

\* bool(x) of an Optional[str]: None and "" are false
Truthy(opt) == opt # None /\ opt[1] # <<>>

\* Batch size for the OpenAI embedding API
OPENAI_EMBED_BATCH_SIZE == 100

\* The texts that are indexed and the collection names of the store
EmptyText == <<>>
ShortText == <<"a">>
LongText == [i \in 1..151 |-> "x"]
OtherText == <<"b">>
CollNames == {"pdf_chunks", "pdf_chunks_openai"}

\* All orders of the texts (a similarity ranking, nearest first)
Perms(S) ==
    { p \in [1..Cardinality(S) -> S] : \A i, j \in DOMAIN p : i # j => p[i] # p[j] }

\* A plausible slip: the collection_name argument used for both providers
CollectionNameShared(openai_api_key, collection_name) == collection_name

\* __init__, line 43: the collection name of an instance
CollectionName(openai_api_key, collection_name) ==
    IF Truthy(openai_api_key) THEN "pdf_chunks_openai" ELSE collection_name

\* EmbeddingsService.__init__; dim is the dimension of the vectors the
\* configured provider returns (embedding_model / openai_embedding_model)
NewEmbeddingsService(openai_api_key, collection_name, dim) ==
    [openai_api_key |-> openai_api_key,
     collection_name |-> CollectionName(openai_api_key, collection_name),
     _collection |-> "None",
     dim |-> dim]

_use_openai(s) == Truthy(s.openai_api_key)

\* Provider calls of _encode(texts): one request per batch of 100 texts with
\* OpenAI, one encode call with the local model
EncodeCalls(s, n) ==
    IF _use_openai(s)
    THEN (n + OPENAI_EMBED_BATCH_SIZE - 1) \div OPENAI_EMBED_BATCH_SIZE
    ELSE 1

NoCollection == [exists |-> FALSE, entries |-> <<>>]

\* A plausible slip: the property makes a new, empty collection on every access
CollectionAnew(i) ==
    [store |-> [store EXCEPT ![svc[i].collection_name] =
                                 [exists |-> TRUE, entries |-> <<>>]],
     handle |-> "live"]

\* The collection property: the cached handle, or get_or_create_collection.
\* Gives the store and the handle after the access.
Collection(i) ==
    LET name == svc[i].collection_name
    IN  IF svc[i]._collection = "None"
        THEN [store |-> IF store[name].exists THEN store
                        ELSE [store EXCEPT ![name] = [exists |-> TRUE, entries |-> <<>>]],
              handle |-> "live"]
        ELSE [store |-> store, handle |-> svc[i]._collection]

\* The entries of the collection as a call on instance i sees them
CollectionOf(st, i) == st[svc[i].collection_name]
EntriesOf(st, i) == CollectionOf(st, i).entries

EntryTexts(entries) == [k \in 1..Len(entries) |-> entries[k].text]
EntryIds(entries) == { entries[k].id : k \in 1..Len(entries) }

\* A plausible slip: the id of a chunk without its position in the call
ChunkIdNoIndex(i, a) == <<0, a>>

\* f"chunk_{i}_{id(hash(c)) % 10**8}": the pair (i, a) stands for the string,
\* which is different for different pairs
ChunkId(i, a) == <<i, a>>

\* A plausible slip: clear() that empties nothing
DeletedCollectionKept(old) == old

\* client.delete_collection(name): the collection is gone from the store
DeletedCollection(old) == NoCollection

\* The texts of entries in the order perm ranks them (equal texts have
\* equal vectors and keep their insertion order)
RECURSIVE RankedTexts(_, _)
RankedTexts(perm, docs) ==
    IF perm = <<>> THEN <<>>
    ELSE SelectSeq(docs, LAMBDA t : t = Head(perm)) \o RankedTexts(Tail(perm), docs)

Min(a, b) == IF a < b THEN a ELSE b

\* A plausible slip: one result too few
NResultsOneLess(top_k, count) == Min(top_k - 1, count)

\* min(top_k, self.collection.count() or 1)
NResults(top_k, count) == Min(top_k, IF count = 0 THEN 1 ELSE count)

\* collection.query(...)["documents"][0]: the n_results nearest texts
QueryDocuments(entries, query, n_results) ==
    Take(RankedTexts(ranking[query], EntryTexts(entries)), n_results)

\* Whether a call with vectors of dimension dim is accepted by a collection:
\* the first vectors added fix its dimension
DimOk(entries, dim) == \A k \in 1..Len(entries) : entries[k].dim = dim

\* The record of a call; before is the collection as the call found it,
\* after_clear tells that a clear() returned earlier and
\* no add_chunks has run between it and this call
Ev(op, i, arg, ret, raised, calls, before, ids) ==
    [op |-> op, svc |-> i, arg |-> arg, ret |-> ret, raised |-> raised,
     encode_calls |-> calls, before |-> before, ids |-> ids,
     after_clear |-> \/ ev.op = "clear" /\ ~ev.raised
                     \/ ev.op \in {"search", "count"} /\ ev.after_clear]

NoEv ==
    [op |-> "none", svc |-> 0, arg |-> <<>>, ret |-> <<>>, raised |-> FALSE,
     encode_calls |-> 0, before |-> NoCollection, ids |-> <<>>,
     after_clear |-> FALSE]

\* search(query, top_k) on instance i: the result and the state after it
Search(i, query, top_k) ==
    LET c == Collection(i)
        entries == EntriesOf(c.store, i)
        ok == c.handle = "live" /\ DimOk(entries, svc[i].dim)
    IN  [store |-> c.store,
         svc |-> [svc EXCEPT ![i]._collection = c.handle],
         raised |-> ~ok,
         docs |-> IF ok THEN QueryDocuments(entries, query, NResults(top_k, Len(entries)))
                  ELSE <<>>,
         ev |-> Ev("search", i, query,
                   IF ok THEN QueryDocuments(entries, query, NResults(top_k, Len(entries)))
                   ELSE <<>>,
                   ~ok, EncodeCalls(svc[i], 1), CollectionOf(store, i), <<>>)]

\* count() on instance i
Count(i) ==
    LET c == Collection(i)
        entries == EntriesOf(c.store, i)
        ok == c.handle = "live"
    IN  [store |-> c.store,
         svc |-> [svc EXCEPT ![i]._collection = c.handle],
         raised |-> ~ok,
         n |-> IF ok THEN Len(entries) ELSE 0,
         ev |-> Ev("count", i, <<>>, IF ok THEN Len(entries) ELSE 0, ~ok, 0,
                   CollectionOf(store, i), <<>>)]

\* A plausible slip: no early return for an empty list
NoChunksNever(chunks) == FALSE

\* "if not chunks", line 105
NoChunks(chunks) == chunks = <<>>

\* add_chunks(chunks, metadata) on instance i: the result and the state after
\* it. a[k] is id(hash(c)) % 10**8 of the k-th chunk, an address the
\* interpreter picks. An id that is already in the collection is, depending
\* on the ChromaDB release, skipped (on_duplicate = "ignore") or refused with
\* an exception ("raise").
add_chunks(i, chunks, a, on_duplicate) ==
    IF NoChunks(chunks)
    THEN [store |-> store, svc |-> svc, raised |-> FALSE, ret |-> 0,
          ev |-> Ev("add_chunks", i, chunks, 0, FALSE, 0, CollectionOf(store, i), <<>>)]
    ELSE LET c == Collection(i)
             name == svc[i].collection_name
             entries == EntriesOf(c.store, i)
             ids == [k \in 1..Len(chunks) |-> ChunkId(k - 1, a[k])]
             new == [k \in 1..Len(chunks) |->
                        [id |-> ids[k], text |-> chunks[k], dim |-> svc[i].dim,
                         openai |-> _use_openai(svc[i])]]
             fresh == SelectSeq(new, LAMBDA e : e.id \notin EntryIds(entries))
             dup_in_call == \E k, l \in 1..Len(ids) : k # l /\ ids[k] = ids[l]
             ok == /\ c.handle = "live"
                   /\ DimOk(entries, svc[i].dim)
                   /\ ~dup_in_call
                   /\ on_duplicate = "raise" => Len(fresh) = Len(new)
         IN  [store |-> IF ok THEN [c.store EXCEPT ![name].entries = entries \o fresh]
                        ELSE c.store,
              svc |-> [svc EXCEPT ![i]._collection = c.handle],
              raised |-> ~ok,
              ret |-> IF ok THEN Len(chunks) ELSE 0,
              ev |-> Ev("add_chunks", i, chunks, IF ok THEN Len(chunks) ELSE 0, ~ok,
                        EncodeCalls(svc[i], Len(chunks)), CollectionOf(store, i), ids)]

\* clear() on instance i: delete_collection raises when the store holds no
\* collection of that name, and then _collection is not reset. A handle
\* another instance holds on the deleted collection becomes stale.
clear(i) ==
    LET name == svc[i].collection_name
    IN  IF store[name].exists
        THEN [store |-> [store EXCEPT ![name] = DeletedCollection(@)],
              svc |-> [j \in DOMAIN svc |->
                          IF j = i THEN [svc[j] EXCEPT !._collection = "None"]
                          ELSE IF svc[j].collection_name = name
                                  /\ svc[j]._collection = "live"
                               THEN [svc[j] EXCEPT !._collection = "stale"]
                               ELSE svc[j]],
              raised |-> FALSE,
              ev |-> Ev("clear", i, <<>>, <<>>, FALSE, 0, CollectionOf(store, i), <<>>)]
        ELSE [store |-> store, svc |-> svc, raised |-> TRUE,
              ev |-> Ev("clear", i, <<>>, <<>>, TRUE, 0, CollectionOf(store, i), <<>>)]

\* The arguments of an add_chunks call on instance i that the model runs:
\* the collection stays within MaxEntries, and "raise" is told apart from
\* "ignore" only when an id is already there
AddArgs(i, chunks, a, on_duplicate) ==
    /\ Len(EntriesOf(store, i)) + Len(chunks) <= MaxEntries
    /\ on_duplicate = "raise" =>
           \E k \in 1..Len(chunks) : ChunkId(k - 1, a[k]) \in EntryIds(EntriesOf(store, i))

(***************************************************************************)
(* ChatService                                                             *)
(***************************************************************************)
\* '\n\n---\n\n'
ContextSeparator ==
    <<"\n", "\n", "-", "-", "-", "\n", "\n">>

\* 'No documents have been uploaded yet, or the knowledge base is empty. Please upload a PDF first.'
MsgNoDocuments ==
    <<"N", "o", " ", "d", "o", "c", "u", "m", "e", "n", "t", "s", " ", "h",
      "a", "v", "e", " ", "b", "e", "e", "n", " ", "u", "p", "l", "o", "a",
      "d", "e", "d", " ", "y", "e", "t", ",", " ", "o", "r", " ", "t", "h",
      "e", " ", "k", "n", "o", "w", "l", "e", "d", "g", "e", " ", "b", "a",
      "s", "e", " ", "i", "s", " ", "e", "m", "p", "t", "y", ".", " ", "P",
      "l", "e", "a", "s", "e", " ", "u", "p", "l", "o", "a", "d", " ", "a",
      " ", "P", "D", "F", " ", "f", "i", "r", "s", "t", ".">>

\* 'No relevant context found for your question (index has '
MsgNoContextHead ==
    <<"N", "o", " ", "r", "e", "l", "e", "v", "a", "n", "t", " ", "c", "o",
      "n", "t", "e", "x", "t", " ", "f", "o", "u", "n", "d", " ", "f", "o",
      "r", " ", "y", "o", "u", "r", " ", "q", "u", "e", "s", "t", "i", "o",
      "n", " ", "(", "i", "n", "d", "e", "x", " ", "h", "a", "s", " ">>

\* ' chunks). Try rephrasing or ask something that matches the document content.'
MsgNoContextTail ==
    <<" ", "c", "h", "u", "n", "k", "s", ")", ".", " ", "T", "r", "y", " ",
      "r", "e", "p", "h", "r", "a", "s", "i", "n", "g", " ", "o", "r", " ",
      "a", "s", "k", " ", "s", "o", "m", "e", "t", "h", "i", "n", "g", " ",
      "t", "h", "a", "t", " ", "m", "a", "t", "c", "h", "e", "s", " ", "t",
      "h", "e", " ", "d", "o", "c", "u", "m", "e", "n", "t", " ", "c", "o",
      "n", "t", "e", "n", "t", ".">>

\* '[OpenAI error: '
MsgOpenAIErrorHead ==
    <<"[", "O", "p", "e", "n", "A", "I", " ", "e", "r", "r", "o", "r", ":",
      " ">>

\* '. Falling back to local model.]'
MsgOpenAIErrorTail ==
    <<".", " ", "F", "a", "l", "l", "i", "n", "g", " ", "b", "a", "c", "k",
      " ", "t", "o", " ", "l", "o", "c", "a", "l", " ", "m", "o", "d", "e",
      "l", ".", "]">>

\* 'ABCDEFGHIJKLMNOPQRSTUVWXYZ'
UpperCase ==
    <<"A", "B", "C", "D", "E", "F", "G", "H", "I", "J", "K", "L", "M", "N",
      "O", "P", "Q", "R", "S", "T", "U", "V", "W", "X", "Y", "Z">>

\* 'abcdefghijklmnopqrstuvwxyz'
LowerCase ==
    <<"a", "b", "c", "d", "e", "f", "g", "h", "i", "j", "k", "l", "m", "n",
      "o", "p", "q", "r", "s", "t", "u", "v", "w", "x", "y", "z">>

\* '0123456789'
Digits ==
    <<"0", "1", "2", "3", "4", "5", "6", "7", "8", "9">>

\* 'Hi?'
QuestionNoTokens ==
    <<"H", "i", "?">>

\* 'Any Leave?'
QuestionTwoTokens ==
    <<"A", "n", "y", " ", "L", "e", "a", "v", "e", "?">>


\* str(n) for n >= 0
RECURSIVE IntStr(_)
IntStr(n) ==
    IF n < 10 THEN <<Digits[n + 1]>>
    ELSE IntStr(n \div 10) \o <<Digits[(n % 10) + 1]>>

\* Whether sub occurs in s ("sub in s")
Contains(s, sub) ==
    \E k \in 0..(Len(s) - Len(sub)) : SubSeq(s, k + 1, k + Len(sub)) = sub

\* The elements of a list
Range(f) == { f[k] : k \in DOMAIN f }

\* str.lower(), character by character
LowerChar(c) ==
    IF \E k \in 1..Len(UpperCase) : UpperCase[k] = c
    THEN LowerCase[CHOOSE k \in 1..Len(UpperCase) : UpperCase[k] = c]
    ELSE c
Lower(s) == [k \in 1..Len(s) |-> LowerChar(s[k])]

\* question.replace("?", "")
RemoveQuestionMarks(s) == SelectSeq(s, LAMBDA c : c # "?")

\* str.split(): the maximal runs of non-whitespace characters
RECURSIVE SplitWhitespace(_, _)
SplitWhitespace(s, cur) ==
    IF s = <<>> THEN (IF cur = <<>> THEN <<>> ELSE <<cur>>)
    ELSE IF Head(s) \in Whitespace
         THEN (IF cur = <<>> THEN <<>> ELSE <<cur>>) \o SplitWhitespace(Tail(s), <<>>)
         ELSE SplitWhitespace(Tail(s), Append(cur, Head(s)))

\* A plausible slip: tokens of one or two characters kept
QualifyingAny(w) == Len(Strip(w)) > 0

\* "if len(w.strip()) > 2", line 39
Qualifying(w) == Len(Strip(w)) > 2

\* words of _get_context, line 39
Words(question) ==
    LET split == SplitWhitespace(Lower(RemoveQuestionMarks(question)), <<>>)
        kept == SelectSeq(split, Qualifying)
    IN  [k \in 1..Len(kept) |-> Strip(kept[k])]

\* extra_queries of _get_context, lines 40-42: the first three words joined,
\* then every pair of consecutive words
ExtraQueries(question) ==
    LET words == Words(question)
    IN  (IF words # <<>> THEN <<Join(Take(words, 3), <<" ">>)>> ELSE <<>>)
        \o [k \in 1..(Len(words) - 1) |-> Join(SubSeq(words, k, k + 1), <<" ">>)]

\* A plausible slip: every extra query is run, not only the first three
IssuedQueriesAll(question) == SelectSeq(ExtraQueries(question), LAMBDA q : q # <<>>)

\* The queries the loop at line 43 searches for: extra_queries[:3] without
\* the empty ones
IssuedQueries(question) ==
    SelectSeq(Take(ExtraQueries(question), 3), LAMBDA q : q # <<>>)

\* A plausible slip: every chunk found by an expansion search is appended
MergeNoCheck(chunks, found) == chunks \o found

\* Lines 46-48: the chunks of found that are not yet in chunks, appended in
\* order ("if c not in chunks: chunks.append(c)")
RECURSIVE Merge(_, _)
Merge(chunks, found) ==
    IF found = <<>> THEN chunks
    ELSE IF Head(found) \in Range(chunks) THEN Merge(chunks, Tail(found))
    ELSE Merge(Append(chunks, Head(found)), Tail(found))

\* Line 49: "\n\n---\n\n".join(chunks) if chunks else ""
Context(chunks) == IF chunks # <<>> THEN Join(chunks, ContextSeparator) ELSE <<>>

\* A plausible slip: the empty-index message whatever the count
NoContextMessageFixed(n) == MsgNoDocuments

\* Lines 102-105: the message of the branch without context
NoContextMessage(n) ==
    IF n = 0 THEN MsgNoDocuments
    ELSE MsgNoContextHead \o IntStr(n) \o MsgNoContextTail

\* A plausible slip: the error message without the exception's text
OpenAIErrorMessageNoText(e) == MsgOpenAIErrorHead \o MsgOpenAIErrorTail

\* Line 74: f"[OpenAI error: {e}. Falling back to local model.]"
OpenAIErrorMessage(e) == MsgOpenAIErrorHead \o e \o MsgOpenAIErrorTail

\* (x or "").strip() of an Optional[str], lines 72 and 92
OrEmptyStripped(opt) == IF opt = None THEN <<>> ELSE Strip(opt[1])

\* What the remote chat completion can do: return a content (None or a
\* text), or raise an exception with a text
RemoteOutcomes ==
    { [error |-> None, content |-> c] : c \in {None, Some(<<" ", "1", "8", "\n">>)} }
    \cup { [error |-> Some(e), content |-> None] : e \in {<<>>, <<"4", "0", "1">>} }

\* What the local provider can do: the pipeline is loaded (lines 78-84) when
\* there is none yet, and run (line 91); either can raise, else
\* out[0].get("generated_text") is None or a text
LocalOutcomes ==
    { [error |-> "none", text |-> t] : t \in {None, Some(<<"1", "8", " ">>)} }
    \cup { [error |-> e, text |-> None] : e \in {"load", "run"} }

\* A plausible slip: a real fallback, the local model asked after a remote error
GenerateWithFallback(svckey, hf_pipeline, remote, local) ==
    IF Truthy(svckey)
    THEN [answer |-> IF remote.error # None THEN OrEmptyStripped(local.text)
                     ELSE OrEmptyStripped(remote.content),
          remote_calls |-> 1,
          local_calls |-> IF remote.error # None THEN 1 ELSE 0,
          remote_error |-> remote.error,
          raised |-> remote.error # None /\ local.error # "none",
          hf_pipeline |-> hf_pipeline \/ (remote.error # None /\ local.error # "load")]
    ELSE [answer |-> OrEmptyStripped(local.text),
          remote_calls |-> 0,
          local_calls |-> 1,
          remote_error |-> None,
          raised |-> local.error # "none",
          hf_pipeline |-> hf_pipeline \/ local.error # "load"]

\* Lines 107-110 with _answer_with_openai and _answer_with_hf: the provider
\* branch of answer(). remote and local are what the provider asked would do.
\* Every exception of the remote provider is caught at line 73; one of the
\* local provider leaves answer().
Generate(svckey, hf_pipeline, remote, local) ==
    IF Truthy(svckey)
    THEN [answer |-> IF remote.error # None THEN OpenAIErrorMessage(remote.error[1])
                     ELSE OrEmptyStripped(remote.content),
          remote_calls |-> 1,
          local_calls |-> 0,
          remote_error |-> remote.error,
          raised |-> FALSE,
          hf_pipeline |-> hf_pipeline]
    ELSE [answer |-> OrEmptyStripped(local.text),
          remote_calls |-> 0,
          local_calls |-> 1,
          remote_error |-> None,
          raised |-> local.error # "none",
          hf_pipeline |-> hf_pipeline \/ local.error # "load"]

\* Line 113: c[:150] + ("..." if len(c) > 150 else "")
Excerpt(c) == Take(c, 150) \o (IF Len(c) > 150 THEN <<".", ".", ".">> ELSE <<>>)

\* ChatService.__init__
NewChatService(top_k_chunks, openai_api_key) ==
    [top_k |-> top_k_chunks, openai_api_key |-> openai_api_key, _hf_pipeline |-> FALSE]

\* An answer() call that has not started
IdleCall ==
    [pc |-> "idle", question |-> <<>>, chunks |-> <<>>, extra |-> <<>>,
     context |-> <<>>, n |-> 0, answer |-> <<>>, sources |-> <<>>,
     remote_calls |-> 0, local_calls |-> 0, remote_error |-> None]

\* The position after the merged list is complete: line 99 returns, line 100
\* branches on "not context"
AfterContext(chunks) == IF Context(chunks) = <<>> THEN "count" ELSE "generate"

\* The questions asked
Questions == {QuestionNoTokens, QuestionTwoTokens}
AllQueries == Questions \cup UNION { Range(ExtraQueries(q)) : q \in Questions }

\* answer(question) is called
answer(p) ==
    /\ call[p].pc = "idle"
    /\ \E question \in Questions :
          call' = [call EXCEPT ![p] = [IdleCall EXCEPT !.pc = "primary",
                                                       !.question = question]]
    /\ UNCHANGED indexVars

\* get_chat_service(): every request builds a ChatService of its own from
\* the settings, with no pipeline loaded
get_chat_service == NewChatService(chat.top_k, chat.openai_api_key)

\* answer() has returned (or raised) and its result has been observed: the
\* locals of the call are gone
answer_return(p) ==
    /\ call[p].pc \in {"done", "raised"}
    /\ call' = [call EXCEPT ![p] = IdleCall]
    /\ UNCHANGED <<chat, indexVars>>

\* The search of line 36 and the search of line 46 for the next extra query
PrimarySearch(p) == [query |-> call[p].question, top_k |-> chat.top_k]
ExtraSearch(p) == [query |-> Head(call[p].extra), top_k |-> 3]

\* _get_context, line 36: the primary search
_get_context_primary(p) ==
    /\ call[p].pc = "primary"
    /\ LET r == Search(1, PrimarySearch(p).query, PrimarySearch(p).top_k)
           extra == IssuedQueries(call[p].question)
       IN  /\ store' = r.store
           /\ svc' = r.svc
           /\ call' = [call EXCEPT
                  ![p].chunks = r.docs,
                  ![p].extra = extra,
                  ![p].context = IF extra = <<>> THEN Context(r.docs) ELSE <<>>,
                  ![p].pc = IF r.raised THEN "raised"
                            ELSE IF extra # <<>> THEN "extra"
                            ELSE AfterContext(r.docs)]
    /\ UNCHANGED <<chat, ranking, addrs, texts, ev>>

\* _get_context, lines 43-48: one expansion search and its merge
_get_context_extra(p) ==
    /\ call[p].pc = "extra"
    /\ LET r == Search(1, ExtraSearch(p).query, ExtraSearch(p).top_k)
           chunks == Merge(call[p].chunks, r.docs)
           extra == Tail(call[p].extra)
       IN  /\ store' = r.store
           /\ svc' = r.svc
           /\ call' = [call EXCEPT
                  ![p].chunks = chunks,
                  ![p].extra = extra,
                  ![p].context = IF extra = <<>> THEN Context(chunks) ELSE <<>>,
                  ![p].pc = IF r.raised THEN "raised"
                            ELSE IF extra # <<>> THEN "extra"
                            ELSE AfterContext(chunks)]
    /\ UNCHANGED <<chat, ranking, addrs, texts, ev>>

\* answer, lines 100-106: no context
answer_no_context(p) ==
    /\ call[p].pc = "count"
    /\ LET r == Count(1)
       IN  /\ store' = r.store
           /\ svc' = r.svc
           /\ call' = [call EXCEPT
                  ![p].n = r.n,
                  ![p].answer = NoContextMessage(r.n),
                  ![p].sources = <<>>,
                  ![p].pc = IF r.raised THEN "raised" ELSE "done"]
    /\ UNCHANGED <<chat, ranking, addrs, texts, ev>>

\* answer, lines 107-110: the generation provider is asked
answer_generate(p) ==
    /\ call[p].pc = "generate"
    /\ \E remote \in RemoteOutcomes, local \in LocalOutcomes :
          LET g == Generate(chat.openai_api_key, chat._hf_pipeline, remote, local)
          IN  /\ call' = [call EXCEPT
                     ![p].answer = IF g.raised THEN <<>> ELSE g.answer,
                     ![p].remote_calls = @ + g.remote_calls,
                     ![p].local_calls = @ + g.local_calls,
                     ![p].remote_error = g.remote_error,
                     ![p].pc = IF g.raised THEN "raised" ELSE "sources"]
              /\ chat' = [chat EXCEPT !._hf_pipeline = g.hf_pipeline]
    /\ UNCHANGED indexVars

\* answer, lines 112-114: the second search and the excerpts
answer_sources(p) ==
    /\ call[p].pc = "sources"
    /\ LET r == Search(1, call[p].question, chat.top_k)
       IN  /\ store' = r.store
           /\ svc' = r.svc
           /\ call' = [call EXCEPT
                  ![p].sources = [k \in 1..Len(r.docs) |-> Excerpt(r.docs[k])],
                  ![p].pc = IF r.raised THEN "raised" ELSE "done"]
    /\ UNCHANGED <<chat, ranking, addrs, texts, ev>>

(***************************************************************************)
(* The variables of the specifications that do not use them                *)
(***************************************************************************)
NormIdle ==
    /\ norig = <<>>
    /\ nprev = <<>>
    /\ ntext = <<>>
    /\ napplied = 0

ChunkIdle ==
    /\ ctext = <<>>
    /\ csize = 0
    /\ coverlap = 0
    /\ cparas = <<>>
    /\ cgroups = <<>>
    /\ cchunks = <<>>
    /\ cdone = FALSE

IndexIdle ==
    /\ store = [n \in CollNames |-> NoCollection]
    /\ svc = <<>>
    /\ ranking = <<>>
    /\ addrs = {}
    /\ texts = {}
    /\ ev = NoEv

ChatIdle ==
    /\ chat = NewChatService(1, None)
    /\ call = <<>>
    /\ hist = <<>>
    /\ hf_loads = 0

(***************************************************************************)
(* SpecNorm: _normalize_whitespace applied to a text, then to its result   *)
(***************************************************************************)
NormChars == {" ", "\t", "\n", "\r", "a"}

NormInit ==
    /\ norig \in SeqsUpTo(NormChars, MaxTextLen)
    /\ nprev = norig
    /\ ntext = norig
    /\ napplied = 0

ApplyNormalize ==
    /\ napplied < 2
    /\ nprev' = ntext
    /\ ntext' = _normalize_whitespace(ntext)
    /\ napplied' = napplied + 1
    /\ UNCHANGED norig
    /\ UNCHANGED <<chunkVars, indexVars, chatVars>>

InitNorm == NormInit /\ ChunkIdle /\ IndexIdle /\ ChatIdle
NextNorm == ApplyNormalize
SpecNorm == InitNorm /\ [][NextNorm]_vars

\* C10: whitespace normalization is idempotent: the second application of
\* _normalize_whitespace returns its argument (the result of the first)
\* unchanged, for every text over spaces, tabs, newlines, carriage returns
\* and a letter.
C10_NormalizeIdempotent == napplied = 2 => ntext = nprev

\* C10 witness: a text with a run of newlines and surrounding blanks was
\* changed by the first application and normalized a second time
C10_Witness ==
    /\ napplied = 2
    /\ nprev # norig
    /\ RunLen(Drop(norig, 1), {"\n"}) >= 3

(***************************************************************************)
(* SpecChunk: chunk_text applied to a text                                 *)
(***************************************************************************)
\* Pieces and separators the input texts are built from
PieceSet == {<<"a">>, <<"b", "b">>, <<"c", ".">>}
SepSet == {<<"\n", "\n">>, <<" ">>, <<"\n", " ", "\n", "\n", "\n">>}
ChunkTexts ==
    { Join(ps, sep) : ps \in SeqsUpTo(PieceSet, MaxPieces), sep \in SepSet }

ChunkInit ==
    /\ ctext \in ChunkTexts
    /\ csize \in 1..MaxChunkSize
    /\ coverlap \in 0..MaxOverlap
    /\ cparas = <<>>
    /\ cgroups = <<>>
    /\ cchunks = <<>>
    /\ cdone = FALSE

ChunkText ==
    /\ ~cdone
    /\ csize > 0
    /\ cparas' = ChunkGroups(ctext, csize, coverlap).paras
    /\ cgroups' = ChunkGroups(ctext, csize, coverlap).groups
    /\ cchunks' = chunk_text(ctext, csize, coverlap)
    /\ cdone' = TRUE
    /\ UNCHANGED <<ctext, csize, coverlap>>
    /\ UNCHANGED <<normVars, indexVars, chatVars>>

InitChunk == ChunkInit /\ NormIdle /\ IndexIdle /\ ChatIdle
NextChunk == ChunkText
SpecChunk == InitChunk /\ [][NextChunk]_vars

\* Length of the longest piece of a piece list
RECURSIVE MaxPieceLen(_)
MaxPieceLen(ps) ==
    IF ps = <<>> THEN 0
    ELSE LET m == MaxPieceLen(Tail(ps))
         IN  IF Len(Head(ps)) > m THEN Len(Head(ps)) ELSE m

\* C9: every chunk returned by chunk_text, other than a chunk made of one
\* single piece longer than chunk_size, is at most chunk_size plus the length
\* of one piece (the longest piece of the text) long, for every chunk_size and
\* chunk_overlap, chunk_overlap >= chunk_size included.
C9_ChunkSizeBound ==
    cdone =>
        \A i \in 1..Len(cchunks) :
            \/ Len(cgroups[i]) = 1 /\ Len(cgroups[i][1]) > csize
            \/ Len(cchunks[i]) <= csize + MaxPieceLen(cparas)

\* The summed lengths of the pieces ps
RECURSIVE PieceLenSum(_)
PieceLenSum(ps) == IF ps = <<>> THEN 0 ELSE Len(Head(ps)) + PieceLenSum(Tail(ps))

\* The last j pieces of ps
SuffixOf(ps, j) == SubSeq(ps, Len(ps) - j + 1, Len(ps))

\* How many trailing pieces of a closed chunk fit in chunk_overlap together
CarryCount(closed, chunk_overlap) ==
    CHOOSE j \in 0..Len(closed) :
        /\ PieceLenSum(SuffixOf(closed, j)) <= chunk_overlap
        /\ \A m \in (j + 1)..Len(closed) : PieceLenSum(SuffixOf(closed, m)) > chunk_overlap

\* The position in raw_paras of the last piece of chunk i, when every chunk
\* before it carried CarryCount pieces over
RECURSIVE LastPieceIndex(_)
LastPieceIndex(i) ==
    IF i = 1 THEN Len(cgroups[1])
    ELSE LastPieceIndex(i - 1) + Len(cgroups[i])
         - CarryCount(cgroups[i - 1], coverlap)

\* C15: the chunk after a closed chunk begins with the longest run of whole
\* trailing pieces of the closed chunk whose lengths add up to at most
\* chunk_overlap, in their order, followed by the piece that triggered the
\* split; so a last piece no longer than chunk_overlap is carried over.
C15_OverlapSeed ==
    cdone =>
        \A i \in 1..(Len(cgroups) - 1) :
            LET closed == cgroups[i]
                next == cgroups[i + 1]
                k == CarryCount(closed, coverlap)
            IN  /\ Len(closed[Len(closed)]) <= coverlap => k >= 1
                /\ Len(next) >= k + 1
                /\ SubSeq(next, 1, k) = SuffixOf(closed, k)
                /\ LastPieceIndex(i) + 1 <= Len(cparas)
                /\ next[k + 1] = cparas[LastPieceIndex(i) + 1]

\* Chunks i.. are runs of consecutive pieces of raw_paras, each starting no
\* later than the piece after the end of the chunk before it (s_prev and
\* e_prev are that chunk's first and last position) and ending later
RECURSIVE ConsecutiveRuns(_, _, _)
ConsecutiveRuns(i, s_prev, e_prev) ==
    IF i > Len(cgroups) THEN e_prev = Len(cparas)
    ELSE \E s \in s_prev..(e_prev + 1) :
            LET e == s + Len(cgroups[i]) - 1
            IN  /\ e > e_prev
                /\ e <= Len(cparas)
                /\ cgroups[i] = SubSeq(cparas, s, e)
                /\ ConsecutiveRuns(i + 1, s, e)

\* C16: every chunk chunk_text returns is a run of consecutive whole pieces
\* joined by a blank line; read in order the chunks cover every piece of the
\* input and keep the pieces' order; a piece longer than chunk_size is in a
\* chunk whole; no chunk is empty.
C16_ChunksAreRunsOfPieces ==
    cdone =>
        /\ Len(cchunks) = Len(cgroups)
        /\ \A i \in 1..Len(cchunks) :
               /\ cchunks[i] # <<>>
               /\ cgroups[i] # <<>>
               /\ cchunks[i] = Join(cgroups[i], <<"\n", "\n">>)
        /\ ConsecutiveRuns(1, 1, 0)
        /\ \A k \in 1..Len(cparas) :
               \E i \in 1..Len(cgroups) : \E j \in 1..Len(cgroups[i]) :
                   cgroups[i][j] = cparas[k]

\* C16 witness: a text chunked into several chunks, with a piece longer than
\* chunk_size and a piece carried over into the next chunk
C16_Witness ==
    /\ cdone
    /\ Len(cchunks) >= 3
    /\ \E k \in 1..Len(cparas) : Len(cparas[k]) > csize
    /\ \E i \in 1..(Len(cgroups) - 1) : Len(cgroups[i + 1]) >= 2

(***************************************************************************)
(* SpecIndex: one shared EmbeddingsService (get_embeddings_service) used   *)
(* by uploads, status requests and clears                                  *)
(***************************************************************************)
\* settings.openai_api_key: unset, empty, or a key
KeySet == {None, Some(<<>>), Some(<<"s", "k">>)}

\* The queries searched for
IndexQueries == {<<"h", "i", "?">>}

IndexInit ==
    /\ store = [n \in CollNames |-> NoCollection]
    /\ \E key \in KeySet :
          svc = [i \in {1} |-> NewEmbeddingsService(key, "pdf_chunks", 384)]
    /\ texts = {EmptyText, ShortText}
    /\ ranking \in [IndexQueries -> Perms({EmptyText, ShortText})]
    /\ addrs = 0..MaxAddr
    /\ ev = NoEv

AddChunks ==
    /\ \E i \in DOMAIN svc, chunks \in SeqsUpTo(texts, MaxChunks) :
          \E a \in [1..Len(chunks) -> addrs], on_duplicate \in {"ignore", "raise"} :
              /\ AddArgs(i, chunks, a, on_duplicate)
              /\ LET r == add_chunks(i, chunks, a, on_duplicate)
                 IN  /\ store' = r.store
                     /\ svc' = r.svc
                     /\ ev' = r.ev
    /\ UNCHANGED <<ranking, addrs, texts, normVars, chunkVars, chatVars>>

SearchIndex ==
    /\ \E i \in DOMAIN svc, query \in DOMAIN ranking, top_k \in 1..MaxTopK :
          LET r == Search(i, query, top_k)
          IN  /\ store' = r.store
              /\ svc' = r.svc
              /\ ev' = r.ev
    /\ UNCHANGED <<ranking, addrs, texts, normVars, chunkVars, chatVars>>

CountIndex ==
    /\ \E i \in DOMAIN svc :
          LET r == Count(i)
          IN  /\ store' = r.store
              /\ svc' = r.svc
              /\ ev' = r.ev
    /\ UNCHANGED <<ranking, addrs, texts, normVars, chunkVars, chatVars>>

ClearIndex ==
    /\ \E i \in DOMAIN svc :
          LET r == clear(i)
          IN  /\ store' = r.store
              /\ svc' = r.svc
              /\ ev' = r.ev
    /\ UNCHANGED <<ranking, addrs, texts, normVars, chunkVars, chatVars>>

InitIndex == IndexInit /\ NormIdle /\ ChunkIdle /\ ChatIdle
NextIndex == AddChunks \/ SearchIndex \/ CountIndex \/ ClearIndex
SpecIndex == InitIndex /\ [][NextIndex]_vars

\* The entries and the state of the collection the latest call worked on
EvEntries == EntriesOf(store, ev.svc)
EvCollection == store[svc[ev.svc].collection_name]

\* C5: add_chunks called with an empty sequence returns 0, makes no call to
\* the embedding provider and leaves the collection as it was: the same
\* entries, and not created if it did not exist.
C5_EmptyAddIsNoop ==
    (ev.op = "add_chunks" /\ ev.arg = <<>>) =>
        /\ ev.ret = 0
        /\ ~ev.raised
        /\ ev.encode_calls = 0
        /\ EvCollection = ev.before

\* C5 witness: an empty add_chunks on a collection that holds entries
C5_Witness ==
    /\ ev.op = "add_chunks"
    /\ ev.arg = <<>>
    /\ Len(ev.before.entries) >= 2

\* C6: every id add_chunks assigns differs from every other id of the call
\* and from every id already in the collection, so that an add of n chunks
\* raises count() by exactly n and overwrites or drops nothing.
C6_IdsUniqueAndCountGrowsByN ==
    (ev.op = "add_chunks" /\ ev.arg # <<>>) =>
        /\ \A k, l \in 1..Len(ev.ids) : k # l => ev.ids[k] # ev.ids[l]
        /\ \A k \in 1..Len(ev.ids) : ev.ids[k] \notin EntryIds(ev.before.entries)
        /\ ~ev.raised
        /\ Len(EvEntries) = Len(ev.before.entries) + Len(ev.arg)

\* C7: after a clear() that returned, the next count() returns 0 and the next
\* search returns the empty sequence, each on an empty collection of the same
\* name that the call recreated; the first add_chunks after it stores exactly
\* its own chunks in the recreated collection.
C7_AfterClear ==
    /\ (ev.op = "clear" /\ ~ev.raised) =>
           /\ ~EvCollection.exists
           /\ svc[ev.svc]._collection = "None"
    /\ (ev.after_clear /\ ev.op = "count") =>
           /\ ~ev.raised
           /\ ev.ret = 0
           /\ EvCollection = [exists |-> TRUE, entries |-> <<>>]
    /\ (ev.after_clear /\ ev.op = "search") =>
           /\ ~ev.raised
           /\ ev.ret = <<>>
           /\ EvCollection = [exists |-> TRUE, entries |-> <<>>]
    /\ (ev.after_clear /\ ev.op = "add_chunks" /\ ev.arg # <<>>) =>
           /\ ~ev.raised
           /\ ev.ret = Len(ev.arg)
           /\ EvCollection.exists
           /\ EntryTexts(EvEntries) = ev.arg

\* C7 witness: a count() right after the clear() of a collection: the count
\* found the collection missing and recreated it
C7_Witness ==
    /\ ev.after_clear
    /\ ev.op = "count"
    /\ EvCollection.exists

(***************************************************************************)
(* SpecIso: two EmbeddingsService instances over one persistent store, the *)
(* first with an OpenAI key, the second without                            *)
(***************************************************************************)
IsoInit ==
    /\ store = [n \in CollNames |-> NoCollection]
    /\ \E name1, name2 \in CollNames, dim2 \in {384, 1536} :
          svc = [i \in {1, 2} |->
                    IF i = 1
                    THEN NewEmbeddingsService(Some(<<"s", "k">>), name1, 1536)
                    ELSE NewEmbeddingsService(None, name2, dim2)]
    /\ texts = {ShortText, OtherText}
    /\ ranking \in [IndexQueries -> Perms({ShortText, OtherText})]
    /\ addrs = {0}
    /\ ev = NoEv

InitIso == IsoInit /\ NormIdle /\ ChunkIdle /\ ChatIdle
SpecIso == InitIso /\ [][NextIndex]_vars

\* C8: two instances over the same store, one with remote and one with local
\* embeddings, use different collection names whatever the constructor
\* arguments; no collection holds vectors of both providers, and a search on
\* one instance never runs on a collection that holds an entry the other wrote.
C8_ProvidersIsolated ==
    /\ \A i, j \in DOMAIN svc :
           _use_openai(svc[i]) # _use_openai(svc[j]) =>
               svc[i].collection_name # svc[j].collection_name
    /\ \A n \in CollNames : \A k, l \in 1..Len(store[n].entries) :
           store[n].entries[k].openai = store[n].entries[l].openai
    /\ (ev.op = "search" /\ ~ev.raised) =>
           \A k \in 1..Len(EvEntries) :
               EvEntries[k].openai = _use_openai(svc[ev.svc])

(***************************************************************************)
(* Spec: the application: one shared EmbeddingsService, one ChatService    *)
(* with the same settings, answer() calls and the upload, status, search   *)
(* and clear requests that can run between the steps of a call             *)
(***************************************************************************)
AppInit ==
    /\ store = [n \in CollNames |-> NoCollection]
    /\ \E key \in KeySet, top_k \in 1..MaxTopK :
          /\ svc = [i \in {1} |-> NewEmbeddingsService(key, "pdf_chunks", 384)]
          /\ chat = NewChatService(top_k, key)
    /\ texts = {ShortText, LongText}
    /\ ranking \in [AllQueries -> Perms({ShortText, LongText})]
    /\ addrs = {0}
    /\ ev = NoEv
    /\ call = [p \in {1} |-> IdleCall]
    /\ hist = <<>>
    /\ hf_loads = 0

\* POST /chat/ask: a new ChatService, then its answer()
Ask ==
    /\ \E p \in DOMAIN call : answer(p)
    /\ chat' = get_chat_service
    /\ UNCHANGED <<normVars, chunkVars, hist, hf_loads>>
GetContextPrimary ==
    (\E p \in DOMAIN call : _get_context_primary(p)) /\ UNCHANGED <<normVars, chunkVars, hist, hf_loads>>
GetContextExtra ==
    (\E p \in DOMAIN call : _get_context_extra(p)) /\ UNCHANGED <<normVars, chunkVars, hist, hf_loads>>
AnswerNoContext ==
    (\E p \in DOMAIN call : answer_no_context(p)) /\ UNCHANGED <<normVars, chunkVars, hist, hf_loads>>
AnswerGenerate ==
    (\E p \in DOMAIN call : answer_generate(p)) /\ UNCHANGED <<normVars, chunkVars, hist, hf_loads>>
AnswerSources ==
    (\E p \in DOMAIN call : answer_sources(p)) /\ UNCHANGED <<normVars, chunkVars, hist, hf_loads>>
AnswerReturn ==
    (\E p \in DOMAIN call : answer_return(p)) /\ UNCHANGED <<normVars, chunkVars, hist, hf_loads>>

\* No finished call is waiting to be observed. A call of another request is
\* modelled as running before a call's result is produced or after it has
\* been observed; neither the call nor the other request can tell.
NoResultPending == \A p \in DOMAIN call : call[p].pc \notin {"done", "raised"}

\* Calls other requests make on the shared EmbeddingsService between the
\* steps of an answer() call: an upload's add_chunks, a clear()
ConcurrentAdd ==
    /\ NoResultPending
    /\ \E chunks \in SeqsUpTo(texts, MaxChunks) \ {<<>>} :
          \E a \in [1..Len(chunks) -> addrs], on_duplicate \in {"ignore", "raise"} :
              /\ AddArgs(1, chunks, a, on_duplicate)
              /\ LET r == add_chunks(1, chunks, a, on_duplicate)
                 IN  /\ store' = r.store
                     /\ svc' = r.svc
    /\ UNCHANGED <<ranking, addrs, texts, ev, normVars, chunkVars, chatVars>>

ConcurrentClear ==
    /\ NoResultPending
    /\ LET r == clear(1)
       IN  /\ store' = r.store
           /\ svc' = r.svc
    /\ UNCHANGED <<ranking, addrs, texts, ev, normVars, chunkVars, chatVars>>

Init == AppInit /\ NormIdle /\ ChunkIdle
Next ==
    \/ Ask
    \/ GetContextPrimary
    \/ GetContextExtra
    \/ AnswerNoContext
    \/ AnswerGenerate
    \/ AnswerSources
    \/ AnswerReturn
    \/ ConcurrentAdd
    \/ ConcurrentClear
Spec == Init /\ [][Next]_vars

\* The merged chunk list of call p is complete (_get_context has returned)
Merged(p) == call[p].pc \in {"count", "generate", "sources", "done"}

\* An API key is configured on the ChatService: a non-empty key
KeyConfigured == chat.openai_api_key # None /\ chat.openai_api_key # Some(<<>>)

\* C1: the merged chunk list built by _get_context (primary search plus
\* expansion searches) holds no two entries with the same text, whatever the
\* question, top_k and the index hold (also an index with several entries of
\* the same text).
C1_MergedNoDuplicates ==
    \A p \in DOMAIN call :
        Merged(p) =>
            \A k, l \in 1..Len(call[p].chunks) :
                k # l => call[p].chunks[k] # call[p].chunks[l]

\* C2: when retrieval yields no chunks, answer() returns no sources and asks
\* neither generation provider; the answer is the fixed "no documents" message
\* when count() is 0 and a different message that names the count otherwise.
C2_NoContextBranch ==
    \A p \in DOMAIN call :
        (call[p].pc \in {"count", "done"} /\ call[p].chunks = <<>>) =>
            /\ call[p].remote_calls = 0
            /\ call[p].local_calls = 0
            /\ call[p].pc = "done" =>
                   /\ call[p].sources = <<>>
                   /\ call[p].n = 0 => call[p].answer = MsgNoDocuments
                   /\ call[p].n > 0 =>
                          /\ call[p].answer # MsgNoDocuments
                          /\ call[p].answer =
                                 MsgNoContextHead \o IntStr(call[p].n) \o MsgNoContextTail

\* C2 witness: a call that retrieved nothing and then counted a non-empty
\* index (chunks were added after its last search)
C2_Witness ==
    \E p \in DOMAIN call :
        /\ call[p].pc = "done"
        /\ call[p].chunks = <<>>
        /\ call[p].n > 0

\* C3: when the remote generation call raises, answer() does not raise: it
\* goes on and returns a non-empty answer that contains the exception's text.
C3_RemoteErrorBecomesAnswer ==
    \A p \in DOMAIN call :
        call[p].remote_error # None =>
            /\ call[p].pc \in {"sources", "done"}
            /\ call[p].answer # <<>>
            /\ Contains(call[p].answer, call[p].remote_error[1])

\* C3 witness: a call returned after its remote generation raised "401"
C3_Witness ==
    \E p \in DOMAIN call :
        /\ call[p].pc = "done"
        /\ call[p].remote_error = Some(<<"4", "0", "1">>)

\* C4: an answer() call with a non-empty context asks exactly one generation
\* provider, once: the remote one when an API key is configured, the local one
\* otherwise; when the remote call fails the local one is still not asked.
C4_OneProviderOnce ==
    \A p \in DOMAIN call :
        (call[p].pc \in {"sources", "done", "raised"} /\ call[p].context # <<>>) =>
            IF KeyConfigured
            THEN call[p].remote_calls = 1 /\ call[p].local_calls = 0
            ELSE call[p].remote_calls = 0 /\ call[p].local_calls = 1

\* C4 witness: a call with context whose remote generation failed
C4_Witness ==
    \E p \in DOMAIN call :
        /\ call[p].pc = "done"
        /\ call[p].context # <<>>
        /\ call[p].remote_error # None
        /\ call[p].remote_calls = 1

\* The chunks the search at line 112 returned to a call that is done (no
\* other request runs between that search and the return)
SourceChunks(p) == Search(1, call[p].question, chat.top_k).docs

\* The text s ends with the marker "..."
EndsWithEllipsis(s) == Len(s) >= 3 /\ SubSeq(s, Len(s) - 2, Len(s)) = <<".", ".", ".">>

\* C12: every entry of the sources answer() returns is at most 150
\* characters long; it ends with the ellipsis marker exactly when its chunk
\* was longer than 150 characters, and then starts with the chunk's first
\* characters; a chunk of at most 150 characters is returned unchanged.
C12_SourcesAtMost150 ==
    \A p \in DOMAIN call :
        (call[p].pc = "done" /\ call[p].context # <<>>) =>
            /\ Len(call[p].sources) = Len(SourceChunks(p))
            /\ \A k \in 1..Len(call[p].sources) :
                   LET src == call[p].sources[k]
                       c == SourceChunks(p)[k]
                   IN  /\ Len(src) <= 150
                       /\ EndsWithEllipsis(src) <=> Len(c) > 150
                       /\ Len(c) <= 150 => src = c
                       /\ Len(c) > 150 =>
                              \E n \in 1..150 : SubSeq(src, 1, n) = SubSeq(c, 1, n)

\* C19: no step of answer() (_get_context, the searches, count(), either
\* provider branch) adds, removes or changes an indexed entry: the entries
\* of every collection, and so count(), are the same after the step as before.
C19_AnswerLeavesEntriesAlone ==
    [][call' # call =>
          \A n \in CollNames : store'[n].entries = store[n].entries]_vars

\* C19 witness: an answer() call has returned sources from a non-empty index
C19_Witness ==
    \E p \in DOMAIN call :
        /\ call[p].pc = "done"
        /\ call[p].sources # <<>>
        /\ EntriesOf(store, 1) # <<>>

\* C20: when answer() has asked a generation provider, sources is not empty
\* and each of its entries is the excerpt of a chunk of the context given to
\* the provider, also when an add_chunks or a clear() of another request ran
\* between the context retrieval and the search for the sources.
C20_SourcesFromContext ==
    \A p \in DOMAIN call :
        (call[p].pc = "done" /\ call[p].remote_calls + call[p].local_calls > 0) =>
            /\ call[p].sources # <<>>
            /\ \A k \in 1..Len(call[p].sources) :
                   \E j \in 1..Len(call[p].chunks) :
                       call[p].sources[k] = Excerpt(call[p].chunks[j])

(***************************************************************************)
(* SpecRetrieve: uploads and _get_context calls, one request at a time,    *)
(* with the searches of each call recorded in hist                         *)
(***************************************************************************)
\* 'What is the annual leave entitlement?'
QuestionLeave ==
    <<"W", "h", "a", "t", " ", "i", "s", " ", "t", "h", "e", " ", "a", "n",
      "n", "u", "a", "l", " ", "l", "e", "a", "v", "e", " ", "e", "n", "t",
      "i", "t", "l", "e", "m", "e", "n", "t", "?">>

\* 'Employees get 18 Annual Leaves per year.'
PolicyChunk ==
    <<"E", "m", "p", "l", "o", "y", "e", "e", "s", " ", "g", "e", "t", " ",
      "1", "8", " ", "A", "n", "n", "u", "a", "l", " ", "L", "e", "a", "v",
      "e", "s", " ", "p", "e", "r", " ", "y", "e", "a", "r", ".">>

\* The questions asked in SpecRetrieve: no, two and five qualifying tokens
RetrieveQuestions == {QuestionNoTokens, QuestionTwoTokens, QuestionLeave}

\* Every query _get_context searches for when asked one of them
RetrieveQueries ==
    RetrieveQuestions \cup UNION { Range(IssuedQueries(q)) : q \in RetrieveQuestions }

\* No search made yet
NoHist == [issued |-> <<>>, primary |-> <<>>, found |-> <<>>]

\* _get_context(question) is called
_get_context(p, question) ==
    /\ call[p].pc = "idle"
    /\ call' = [call EXCEPT ![p] = [IdleCall EXCEPT !.pc = "primary",
                                                    !.question = question]]
    /\ UNCHANGED <<chat, indexVars>>

\* _get_context has returned (line 49) or raised: the locals are gone
_get_context_return(p) ==
    /\ call[p].pc \in {"count", "generate", "raised"}
    /\ call' = [call EXCEPT ![p] = IdleCall]
    /\ UNCHANGED <<chat, indexVars>>

RetrieveInit ==
    /\ store = [n \in CollNames |-> NoCollection]
    /\ svc = [i \in {1} |-> NewEmbeddingsService(None, "pdf_chunks", 384)]
    /\ \E top_k \in 1..MaxTopK : chat = NewChatService(top_k, None)
    /\ texts = {PolicyChunk, ShortText}
    /\ ranking \in [RetrieveQueries -> Perms({PolicyChunk, ShortText})]
    /\ addrs = {0}
    /\ ev = NoEv
    /\ call = [p \in {1} |-> IdleCall]
    /\ hist = [p \in {1} |-> NoHist]
    /\ hf_loads = 0

\* An upload's add_chunks while no _get_context call is running
RetrieveUpload ==
    /\ \A p \in DOMAIN call : call[p].pc = "idle"
    /\ \E chunks \in SeqsUpTo(texts, MaxChunks) \ {<<>>} :
          \E a \in [1..Len(chunks) -> addrs], on_duplicate \in {"ignore", "raise"} :
              /\ AddArgs(1, chunks, a, on_duplicate)
              /\ LET r == add_chunks(1, chunks, a, on_duplicate)
                 IN  /\ store' = r.store
                     /\ svc' = r.svc
    /\ UNCHANGED <<ranking, addrs, texts, ev, normVars, chunkVars, chatVars>>

RetrieveStart ==
    /\ \E p \in DOMAIN call, question \in RetrieveQuestions :
          /\ _get_context(p, question)
          /\ hist' = [hist EXCEPT ![p] = NoHist]
    /\ UNCHANGED <<normVars, chunkVars, hf_loads>>

RetrievePrimary ==
    /\ \E p \in DOMAIN call :
          /\ _get_context_primary(p)
          /\ hist' = [hist EXCEPT
                 ![p].issued = Append(@, PrimarySearch(p)),
                 ![p].primary = call'[p].chunks]
    /\ UNCHANGED <<normVars, chunkVars, hf_loads>>

RetrieveExtra ==
    /\ \E p \in DOMAIN call :
          /\ _get_context_extra(p)
          /\ hist' = [hist EXCEPT
                 ![p].issued = Append(@, ExtraSearch(p)),
                 ![p].found = @ \o Search(1, ExtraSearch(p).query, ExtraSearch(p).top_k).docs]
    /\ UNCHANGED <<normVars, chunkVars, hf_loads>>

RetrieveReturn ==
    /\ \E p \in DOMAIN call : _get_context_return(p)
    /\ UNCHANGED <<normVars, chunkVars, hist, hf_loads>>

InitRetrieve == RetrieveInit /\ NormIdle /\ ChunkIdle
NextRetrieve ==
    \/ RetrieveUpload
    \/ RetrieveStart
    \/ RetrievePrimary
    \/ RetrieveExtra
    \/ RetrieveReturn
SpecRetrieve == InitRetrieve /\ [][NextRetrieve]_vars

\* _get_context of call p has returned its merged list
Retrieved(p) == call[p].pc \in {"count", "generate"}

\* The expansion searches call p has made: all but the first of hist[p].issued
Expansions(p) == Tail(hist[p].issued)

\* How many entries of the list s equal x
Occurrences(s, x) == Cardinality({ k \in 1..Len(s) : s[k] = x })

\* C11: for the question 'What is the annual leave entitlement?' on an index
\* that holds the chunk 'Employees get 18 Annual Leaves per year.' once, the
\* expansion searches are made of the tokens annual, leave and entitlement
\* only, 'annual leave' and 'leave entitlement' are both searched for, and
\* the chunk is in the merged list exactly once.
C11_LeaveExpansionQueries ==
    \A p \in DOMAIN call :
        (/\ Retrieved(p)
         /\ call[p].question = QuestionLeave
         /\ Occurrences(EntryTexts(EntriesOf(store, 1)), PolicyChunk) = 1) =>
            /\ \A k \in 1..Len(Expansions(p)) :
                   Range(SplitWhitespace(Expansions(p)[k].query, <<>>))
                       \subseteq {<<"a", "n", "n", "u", "a", "l">>,
                                  <<"l", "e", "a", "v", "e">>,
                                  <<"e", "n", "t", "i", "t", "l", "e", "m", "e", "n", "t">>}
            /\ \E k \in 1..Len(Expansions(p)) :
                   Expansions(p)[k].query =
                       <<"a", "n", "n", "u", "a", "l", " ", "l", "e", "a", "v", "e">>
            /\ \E k \in 1..Len(Expansions(p)) :
                   Expansions(p)[k].query =
                       <<"l", "e", "a", "v", "e", " ", "e", "n", "t", "i", "t", "l",
                         "e", "m", "e", "n", "t">>
            /\ Occurrences(call[p].chunks, PolicyChunk) = 1

\* The position of the first occurrence of x in the list s
FirstIndex(s, x) == CHOOSE k \in 1..Len(s) : s[k] = x /\ \A j \in 1..(k - 1) : s[j] # x

C14_ExpansionSearches ==
    \A p \in DOMAIN call :
        Retrieved(p) =>
            LET w == Words(call[p].question)
                all == (IF Len(w) > 0 THEN <<Join(Take(w, 3), <<" ">>)>> ELSE <<>>)
                       \o [k \in 1..(Len(w) - 1) |-> w[k] \o <<" ">> \o w[k + 1]]
                exp == Expansions(p)
            IN  /\ Len(hist[p].issued) >= 1
                /\ hist[p].issued[1] = [query |-> call[p].question, top_k |-> chat.top_k]
                /\ Len(exp) <= 3
                /\ \A k \in 1..Len(exp) : exp[k].top_k = 3
                /\ [k \in 1..Len(exp) |-> exp[k].query] = Take(all, 3)
                /\ Len(w) = 0 => (exp = <<>> /\ call[p].chunks = hist[p].primary)

\* C14 witness: the question with five qualifying tokens has been retrieved
\* for with three expansion searches
C14_Witness ==
    \E p \in DOMAIN call :
        /\ Retrieved(p)
        /\ Len(Words(call[p].question)) = 5
        /\ Len(Expansions(p)) = 3

(***************************************************************************)
(* SpecLocal: one ChatService without an API key whose answer() is called  *)
(* by two threads, _answer_with_hf taken statement by statement            *)
(***************************************************************************)
\* _answer_with_hf, line 78: "if self._hf_pipeline is None"
_answer_with_hf_check(p) ==
    /\ call[p].pc = "generate"
    /\ ~Truthy(chat.openai_api_key)
    /\ call' = [call EXCEPT ![p].pc = IF chat._hf_pipeline THEN "run" ELSE "load"]
    /\ UNCHANGED <<chat, indexVars>>

\* _answer_with_hf, lines 79-84: pipeline(...) is built and assigned to
\* self._hf_pipeline, or raises
_answer_with_hf_load(p) ==
    /\ call[p].pc = "load"
    /\ \E loaded \in BOOLEAN :
          /\ call' = [call EXCEPT ![p].pc = IF loaded THEN "run" ELSE "raised",
                                  ![p].local_calls = IF loaded THEN @ ELSE @ + 1]
          /\ chat' = [chat EXCEPT !._hf_pipeline = @ \/ loaded]
    /\ UNCHANGED indexVars

\* _answer_with_hf, lines 86-92: the pipeline is run on the prompt
_answer_with_hf_run(p) ==
    /\ call[p].pc = "run"
    /\ \E local \in { o \in LocalOutcomes : o.error # "load" } :
          call' = [call EXCEPT
              ![p].answer = OrEmptyStripped(local.text),
              ![p].local_calls = @ + 1,
              ![p].pc = IF local.error # "none" THEN "raised" ELSE "sources"]
    /\ UNCHANGED <<chat, indexVars>>

LocalInit ==
    /\ store = [n \in CollNames |-> NoCollection]
    /\ svc = [i \in {1} |-> NewEmbeddingsService(None, "pdf_chunks", 384)]
    /\ \E top_k \in 1..MaxTopK : chat = NewChatService(top_k, None)
    /\ texts = {ShortText}
    /\ ranking \in [AllQueries -> Perms({ShortText})]
    /\ addrs = {0}
    /\ ev = NoEv
    /\ call = [p \in {1, 2} |-> IdleCall]
    /\ hist = <<>>
    /\ hf_loads = 0

\* An upload's add_chunks while no answer() call is running
LocalUpload ==
    /\ \A p \in DOMAIN call : call[p].pc = "idle"
    /\ \E chunks \in SeqsUpTo(texts, MaxChunks) \ {<<>>} :
          \E a \in [1..Len(chunks) -> addrs], on_duplicate \in {"ignore", "raise"} :
              /\ AddArgs(1, chunks, a, on_duplicate)
              /\ LET r == add_chunks(1, chunks, a, on_duplicate)
                 IN  /\ store' = r.store
                     /\ svc' = r.svc
    /\ UNCHANGED <<ranking, addrs, texts, ev, normVars, chunkVars, chatVars>>

\* A thread calls answer() on the one instance
LocalAnswer ==
    /\ \E p \in DOMAIN call : answer(p)
    /\ UNCHANGED <<chat, normVars, chunkVars, hist, hf_loads>>

LocalCheck ==
    /\ \E p \in DOMAIN call : _answer_with_hf_check(p)
    /\ UNCHANGED <<normVars, chunkVars, hist, hf_loads>>

\* hf_loads counts the pipelines built
LocalLoad ==
    /\ \E p \in DOMAIN call :
          /\ _answer_with_hf_load(p)
          /\ hf_loads' = IF call'[p].pc = "run" THEN hf_loads + 1 ELSE hf_loads
    /\ UNCHANGED <<normVars, chunkVars, hist>>

LocalRun ==
    /\ \E p \in DOMAIN call : _answer_with_hf_run(p)
    /\ UNCHANGED <<normVars, chunkVars, hist, hf_loads>>

InitLocal == LocalInit /\ NormIdle /\ ChunkIdle
NextLocal ==
    \/ LocalUpload
    \/ LocalAnswer
    \/ GetContextPrimary
    \/ GetContextExtra
    \/ AnswerNoContext
    \/ LocalCheck
    \/ LocalLoad
    \/ LocalRun
    \/ AnswerSources
    \/ AnswerReturn
SpecLocal == InitLocal /\ [][NextLocal]_vars

\* C17: on one ChatService instance the local pipeline is built at most
\* once, also when two answer() calls reach the local branch before the
\* handle is set; once set, the handle stays and no call builds it again.
C17_PipelineBuiltOnce ==
    /\ hf_loads <= 1
    /\ hf_loads >= 1 => chat._hf_pipeline

(***************************************************************************)
(* SpecAsk: the application answering /chat/ask requests one after the     *)
(* other, with the pipelines built in the process counted in hf_loads      *)
(***************************************************************************)
AskInit ==
    /\ store = [n \in CollNames |-> NoCollection]
    /\ \E key \in KeySet, top_k \in 1..MaxTopK :
          /\ svc = [i \in {1} |-> NewEmbeddingsService(key, "pdf_chunks", 384)]
          /\ chat = NewChatService(top_k, key)
    /\ texts = {EmptyText, ShortText}
    /\ ranking \in [AllQueries -> Perms({EmptyText, ShortText})]
    /\ addrs = {0}
    /\ ev = NoEv
    /\ call = [p \in {1} |-> IdleCall]
    /\ hist = <<>>
    /\ hf_loads = 0

\* POST /documents/clear while no answer() call is running
AskClear ==
    /\ \A p \in DOMAIN call : call[p].pc = "idle"
    /\ LET r == clear(1)
       IN  /\ store' = r.store
           /\ svc' = r.svc
    /\ UNCHANGED <<ranking, addrs, texts, ev, normVars, chunkVars, chatVars>>

\* The provider branch of answer(); a pipeline has been built when the
\* instance's handle goes from None to set. At most MaxLoads are followed.
AskGenerate ==
    /\ hf_loads < MaxLoads
    /\ \E p \in DOMAIN call : answer_generate(p)
    /\ hf_loads' = IF ~chat._hf_pipeline /\ chat'._hf_pipeline
                   THEN hf_loads + 1 ELSE hf_loads
    /\ UNCHANGED <<normVars, chunkVars, hist>>

InitAsk == AskInit /\ NormIdle /\ ChunkIdle
NextAsk ==
    \/ LocalUpload
    \/ AskClear
    \/ Ask
    \/ GetContextPrimary
    \/ GetContextExtra
    \/ AnswerNoContext
    \/ AskGenerate
    \/ AnswerSources
    \/ AnswerReturn
SpecAsk == InitAsk /\ [][NextAsk]_vars

\* C18: within one process the local model is built at most once over any
\* sequence of /chat/ask requests, and a handle, once created, is there for
\* every later request (it is never dropped).
C18_ModelBuiltOncePerProcess ==
    /\ [](hf_loads <= 1)
    /\ [][chat._hf_pipeline => chat'._hf_pipeline]_vars

\* Every indexed chunk text is non-empty
AllTextsNonEmpty == \A k \in 1..Len(EntriesOf(store, 1)) : EntriesOf(store, 1)[k].text # <<>>

\* C21: when no add_chunks or clear() runs during an answer() call, top_k is
\* at least 1 and every indexed chunk text is non-empty, the call takes the
\* branch without context exactly when the index holds no chunk; it then
\* counts 0 and returns the "no documents" message, never the message that
\* names a count above 0.
C21_NoContextOnlyOnEmptyIndex ==
    \A p \in DOMAIN call :
        (chat.top_k >= 1 /\ AllTextsNonEmpty) =>
            /\ call[p].pc \in {"count", "generate"} =>
                   (call[p].pc = "count" <=> Len(EntriesOf(store, 1)) = 0)
            /\ (call[p].pc = "done" /\ call[p].context = <<>>) =>
                   /\ Len(EntriesOf(store, 1)) = 0
                   /\ call[p].n = 0
                   /\ call[p].answer = MsgNoDocuments
            /\ (call[p].pc \in {"sources", "done"} /\ call[p].context # <<>>) =>
                   Len(EntriesOf(store, 1)) > 0

\* C21 witness: a request answered without context on an index that an
\* earlier request had found context in and that was cleared since
C21_Witness ==
    \E p \in DOMAIN call :
        /\ call[p].pc = "done"
        /\ call[p].context = <<>>
        /\ call[p].answer = MsgNoDocuments
        /\ hf_loads >= 1

\* C22: clear() succeeds whatever state the index is in: with entries, empty,
\* never created in the store, or just removed by a previous clear(); it
\* returns without raising and leaves no collection behind, so that count()
\* is 0 afterwards.
C22_ClearAlwaysSucceeds ==
    ev.op = "clear" =>
        /\ ~ev.raised
        /\ ~EvCollection.exists
====
